---- MODULE Spec2Model ----
(***************************************************************************)
(* napalm_ng/base.py: BaseNetworkDriver, the driver contract every network *)
(* driver inherits from, and its scoped session manager (__enter__ /       *)
(* __exit__ / __raise_clean_exception).                                    *)
(*                                                                         *)
(* Spec        the scoped session manager: `with driver: <work>`.          *)
(* SpecDriver  direct calls of the ten operations of the contract on a     *)
(*             driver variant that overrides some of them.                 *)
(***************************************************************************)
EXTENDS Naturals, Sequences, FiniteSets

VARIABLES
    overrides,   \* the operations the driver variant (a subclass) overrides
    py,          \* major version of the interpreter running the module
    session,     \* the device session the driver object holds
    pc,          \* position of the with statement: idle, body, exit, done
    scopes,      \* number of with statements started on the driver object
    entries,     \* number of __enter__ calls that returned
    closeCalls,  \* number of close() calls made by __enter__ and __exit__
    bodyRuns,    \* number of times the protected work was started
    openExc,     \* what open() raised inside __enter__ (None: it returned)
    exc_info,    \* what the protected work raised (None: it returned)
    closeExc,    \* what close() raised inside __exit__ (None: it returned)
    raised,      \* the failure propagating out of the with statement
    context,     \* the __context__ the interpreter attached to `raised`
    printed,     \* whether print(epilog) ran in this scope
    events,      \* the calls of this scope, in program order
    result,      \* outcome of the last direct call of an operation
    preCommit    \* running configuration the last successful commit replaced

vars == <<overrides, py, session, pc, scopes, entries, closeCalls, bodyRuns,
          openExc, exc_info, closeExc, raised, context, printed, events, result,
          preCommit>>

scopeVars == <<pc, scopes, entries, closeCalls, bodyRuns, openExc, exc_info,
               closeExc, raised, context, printed, events>>

(***************************************************************************)
(* Bounds of the model.                                                    *)
(***************************************************************************)
MaxScopes == 2     \* with statements run on one driver object
MaxCommits == 2    \* successful commits kept in one session's history

None == "None"

(***************************************************************************)
(* Exceptions.  A class is its __name__, the module that defines it and    *)
(* whether it derives from Exception (and not only from BaseException).    *)
(* An exception object is its class, its args and its identity.            *)
(***************************************************************************)
Class(n, m, b) == [name |-> n, module |-> m, base |-> b]

NotImplementedErrorClass == Class("NotImplementedError", "builtins", "Exception")

\* Keys of __builtins__, which in an imported module is the dict of the
\* interpreter's builtin names (the ones the model uses).
BuiltinsKeys == {"NotImplementedError", "ValueError", "KeyboardInterrupt", "print"}

\* Names exported by napalm_ng.exceptions: the declared error kinds.
DirExceptions == {"ConnectionError", "NotConnected", "LoadConfigError",
                  "NoCandidateConfiguration", "CommitError", "RollbackError"}

Napalm(n) == Class(n, "napalm_ng.exceptions", "Exception")

\* Classes a driver, its vendor library or the protected work may raise.
RaisedClasses ==
    { Class("ValueError", "builtins", "Exception"),
      Class("KeyboardInterrupt", "builtins", "BaseException"),
      Napalm("ConnectionError"),
      Napalm("CommitError"),
      Class("VendorError", "vendor", "Exception"),
      Class("CommitError", "vendor", "Exception"),
      Class("ValueError", "vendor", "Exception"),
      Class("VendorAbort", "vendor", "BaseException") }

Payloads == {"p1", "p2"}

Exc(c, a, i) == [type |-> c, args |-> a, id |-> i]

\* No exception: exc_type, exc_value and exc_traceback are all None.
NoneType == Class("NoneType", "builtins", "object")
NoExc == Exc(NoneType, "", None)

\* The exception objects code outside this module raises at call site i.
Raisable(i) == { Exc(c, a, i) : c \in RaisedClasses, a \in Payloads }

IsBuiltin(c) == c.module = "builtins"
IsNapalm(c) == c.module = "napalm_ng.exceptions"

(***************************************************************************)
(* The device session.                                                     *)
(***************************************************************************)
Ops == {"open", "close", "is_alive", "load_replace_candidate",
        "load_merge_candidate", "compare_config", "commit_config",
        "discard_config", "rollback", "cli"}

Configs == {"c0", "c1", "c2"}

NewSession(r) == [state |-> "Disconnected", running |-> r, candidate |-> None,
                  history |-> <<>>]

\* What a call does: the session after it, what it raised, what it returned.
Outcome(s, e, r) == [session |-> s, exc |-> e, ret |-> r]

RetNone == <<"None">>

(***************************************************************************)
(* BaseNetworkDriver: every operation of the contract raises               *)
(* NotImplementedError.                                                    *)
(***************************************************************************)
NotImplemented(op) == Exc(NotImplementedErrorClass, "", op)

open(self) == { Outcome(self, NotImplemented("open"), RetNone) }

\* Variant of close that returns silently instead of raising.
close_returns_silently(self) == { Outcome(self, NoExc, RetNone) }

\* Variant of close that marks the session closed before it raises.
close_marks_closed(self) ==
    { Outcome([self EXCEPT !.state = "Closed"], NotImplemented("close"), RetNone) }

close(self) == { Outcome(self, NotImplemented("close"), RetNone) }

is_alive(self) == { Outcome(self, NotImplemented("is_alive"), RetNone) }

\* Variant of load_replace_candidate that puts the configuration it is given
\* in place before it raises.
load_replace_candidate_replaces_running(self, filename, config) ==
    { Outcome(IF config \in Configs THEN [self EXCEPT !.running = config]
                                    ELSE self,
              NotImplemented("load_replace_candidate"), RetNone) }

load_replace_candidate(self, filename, config) ==
    { Outcome(self, NotImplemented("load_replace_candidate"), RetNone) }

\* Variant of load_merge_candidate that rejects a call naming both a file and
\* a string.
load_merge_candidate_rejects_both(self, filename, config) ==
    IF filename # None /\ config # None
    THEN { Outcome(self, Exc(Class("ValueError", "builtins", "Exception"), "",
                             "load_merge_candidate"), RetNone) }
    ELSE { Outcome(self, NotImplemented("load_merge_candidate"), RetNone) }

load_merge_candidate(self, filename, config) ==
    { Outcome(self, NotImplemented("load_merge_candidate"), RetNone) }

\* Variant of compare_config that returns an empty diff instead of raising.
compare_config_returns_empty(self) == { Outcome(self, NoExc, <<"diff", <<>> >>) }

compare_config(self) == { Outcome(self, NotImplemented("compare_config"), RetNone) }

\* Variant of commit_config that reports a session that is not connected
\* with the runtime failure instead of NotImplementedError.
commit_config_checks_connection(self) ==
    IF self.state = "Disconnected"
    THEN { Outcome(self, Exc(Napalm("NotConnected"), "", "commit_config"),
                   RetNone) }
    ELSE { Outcome(self, NotImplemented("commit_config"), RetNone) }

commit_config(self) == { Outcome(self, NotImplemented("commit_config"), RetNone) }

\* Variant of discard_config that checks for a staged candidate itself.
discard_config_requires_candidate(self) ==
    IF self.candidate = None
    THEN { Outcome(self, Exc(Napalm("NoCandidateConfiguration"), "",
                             "discard_config"), RetNone) }
    ELSE { Outcome(self, NotImplemented("discard_config"), RetNone) }

discard_config(self) == { Outcome(self, NotImplemented("discard_config"), RetNone) }

\* Variant of rollback that reports the missing history itself.
rollback_reports_no_history(self) ==
    IF self.history = <<>>
    THEN { Outcome(self, Exc(Napalm("RollbackError"), "", "rollback"), RetNone) }
    ELSE { Outcome(self, NotImplemented("rollback"), RetNone) }

rollback(self) == { Outcome(self, NotImplemented("rollback"), RetNone) }

cli(self, commands) == { Outcome(self, NotImplemented("cli"), RetNone) }

(***************************************************************************)
(* Arguments of the operations.                                            *)
(***************************************************************************)
Invalid == "invalid"

Filenames == {"a.cfg", "b.cfg"}

FileContent(f) == IF f = "a.cfg" THEN "c1" ELSE Invalid

Commands == {"show version", "show chassis fan"}

CommandLists == { <<c>> : c \in Commands } \cup (Commands \X Commands)

LoadArgs == [filename : Filenames \cup {None},
             config : {"c2", Invalid, None}]

NoArgs == [filename |-> None, config |-> None, commands |-> <<>>]

ArgsOf(op) ==
    IF op \in {"load_replace_candidate", "load_merge_candidate"}
    THEN { [filename |-> a.filename, config |-> a.config, commands |-> <<>>] :
             a \in LoadArgs }
    ELSE IF op = "cli"
    THEN { [filename |-> None, config |-> None, commands |-> c] :
             c \in CommandLists }
    ELSE { NoArgs }

\* BaseNetworkDriver's own method for each name.
BaseCall(op, self, args) ==
    CASE op = "open" -> open(self)
      [] op = "close" -> close(self)
      [] op = "is_alive" -> is_alive(self)
      [] op = "load_replace_candidate" ->
            load_replace_candidate(self, args.filename, args.config)
      [] op = "load_merge_candidate" ->
            load_merge_candidate(self, args.filename, args.config)
      [] op = "compare_config" -> compare_config(self)
      [] op = "commit_config" -> commit_config(self)
      [] op = "discard_config" -> discard_config(self)
      [] op = "rollback" -> rollback(self)
      [] op = "cli" -> cli(self, args.commands)

(***************************************************************************)
(* A driver variant's own operations: the configuration lifecycle          *)
(* Disconnected -> Connected -> CandidatePending -> Connected, and Closed. *)
(* open() and close() talk to the transport, which may raise anything.     *)
(***************************************************************************)
IsConnected(self) == self.state \in {"Connected", "CandidatePending"}

Declared(n, op) == Exc(Napalm(n), "", op)

Driver_open(self) ==
    IF IsConnected(self)
    THEN { Outcome(self, NoExc, RetNone) }
    ELSE { Outcome([self EXCEPT !.state = "Connected", !.candidate = None,
                                !.history = <<>>], NoExc, RetNone) }
         \cup { Outcome(self, e, RetNone) : e \in Raisable("open") }

Driver_close(self) ==
    IF ~IsConnected(self)
    THEN { Outcome([self EXCEPT !.state = "Closed"], NoExc, RetNone) }
    ELSE { Outcome([self EXCEPT !.state = "Closed", !.candidate = None,
                                !.history = <<>>], NoExc, RetNone) }
         \cup { Outcome(self, e, RetNone) : e \in Raisable("close") }

Driver_is_alive(self) == { Outcome(self, NoExc, <<"bool", IsConnected(self)>>) }

\* The configuration text of a load: the file's when a file is named.
LoadSource(filename, config) ==
    IF filename # None THEN FileContent(filename) ELSE config

\* Variant of a driver's load that keeps a candidate that is already pending.
Driver_load_candidate_keeps_first(op, self, filename, config) ==
    IF ~IsConnected(self)
    THEN { Outcome(self, Declared("NotConnected", op), RetNone) }
    ELSE IF LoadSource(filename, config) \in {None, Invalid}
    THEN { Outcome(self, Declared("LoadConfigError", op), RetNone) }
    ELSE { Outcome([self EXCEPT !.state = "CandidatePending",
                                !.candidate = IF self.candidate = None
                                              THEN LoadSource(filename, config)
                                              ELSE self.candidate],
                   NoExc, RetNone) }

Driver_load_candidate(op, self, filename, config) ==
    IF ~IsConnected(self)
    THEN { Outcome(self, Declared("NotConnected", op), RetNone) }
    ELSE IF LoadSource(filename, config) \in {None, Invalid}
    THEN { Outcome(self, Declared("LoadConfigError", op), RetNone) }
    ELSE { Outcome([self EXCEPT !.state = "CandidatePending",
                                !.candidate = LoadSource(filename, config)],
                   NoExc, RetNone) }

EmptyDiff == <<>>

Diff(running, candidate) ==
    IF candidate = None \/ candidate = running
    THEN EmptyDiff
    ELSE <<running, candidate>>

Driver_compare_config(self) ==
    IF ~IsConnected(self)
    THEN { Outcome(self, Declared("NotConnected", "compare_config"), RetNone) }
    ELSE { Outcome(self, NoExc, <<"diff", Diff(self.running, self.candidate)>>) }

\* Variant of a driver's commit_config whose failed commit has already
\* replaced the running configuration.
Driver_commit_config_partial(self) ==
    IF ~IsConnected(self)
    THEN { Outcome(self, Declared("NotConnected", "commit_config"), RetNone) }
    ELSE IF self.candidate = None
    THEN { Outcome(self, Declared("NoCandidateConfiguration", "commit_config"),
                   RetNone) }
    ELSE { Outcome([self EXCEPT !.state = "Connected",
                                !.running = self.candidate,
                                !.candidate = None,
                                !.history = Append(self.history, self.running)],
                   NoExc, RetNone),
           Outcome([self EXCEPT !.running = self.candidate],
                   Declared("CommitError", "commit_config"), RetNone) }

Driver_commit_config(self) ==
    IF ~IsConnected(self)
    THEN { Outcome(self, Declared("NotConnected", "commit_config"), RetNone) }
    ELSE IF self.candidate = None
    THEN { Outcome(self, Declared("NoCandidateConfiguration", "commit_config"),
                   RetNone) }
    ELSE { Outcome([self EXCEPT !.state = "Connected",
                                !.running = self.candidate,
                                !.candidate = None,
                                !.history = Append(self.history, self.running)],
                   NoExc, RetNone),
           Outcome(self, Declared("CommitError", "commit_config"), RetNone) }

Driver_discard_config(self) ==
    IF ~IsConnected(self)
    THEN { Outcome(self, Declared("NotConnected", "discard_config"), RetNone) }
    ELSE IF self.candidate = None
    THEN { Outcome(self, Declared("NoCandidateConfiguration", "discard_config"),
                   RetNone) }
    ELSE { Outcome([self EXCEPT !.state = "Connected", !.candidate = None],
                   NoExc, RetNone) }

\* Variant of a driver's rollback that reverts to the configuration the
\* session started with.
Driver_rollback_to_original(self) ==
    IF ~IsConnected(self)
    THEN { Outcome(self, Declared("NotConnected", "rollback"), RetNone) }
    ELSE IF self.history = <<>>
    THEN { Outcome(self, Declared("RollbackError", "rollback"), RetNone) }
    ELSE { Outcome([self EXCEPT !.running = self.history[1]], NoExc, RetNone),
           Outcome(self, Declared("RollbackError", "rollback"), RetNone) }

Driver_rollback(self) ==
    IF ~IsConnected(self)
    THEN { Outcome(self, Declared("NotConnected", "rollback"), RetNone) }
    ELSE IF self.history = <<>>
    THEN { Outcome(self, Declared("RollbackError", "rollback"), RetNone) }
    ELSE { Outcome([self EXCEPT !.running = self.history[Len(self.history)]],
                   NoExc, RetNone),
           Outcome(self, Declared("RollbackError", "rollback"), RetNone) }

\* The result set of cli(): one entry per command text.
CommandResultSet(commands) ==
    { <<commands[i], "output">> : i \in 1..Len(commands) }

Driver_cli(self, commands) ==
    IF ~IsConnected(self)
    THEN { Outcome(self, Declared("NotConnected", "cli"), RetNone) }
    ELSE { Outcome(self, NoExc, <<"dict", CommandResultSet(commands)>>) }

DriverCall(op, self, args) ==
    CASE op = "open" -> Driver_open(self)
      [] op = "close" -> Driver_close(self)
      [] op = "is_alive" -> Driver_is_alive(self)
      [] op \in {"load_replace_candidate", "load_merge_candidate"} ->
            Driver_load_candidate(op, self, args.filename, args.config)
      [] op = "compare_config" -> Driver_compare_config(self)
      [] op = "commit_config" -> Driver_commit_config(self)
      [] op = "discard_config" -> Driver_discard_config(self)
      [] op = "rollback" -> Driver_rollback(self)
      [] op = "cli" -> Driver_cli(self, args.commands)

\* Method resolution: the variant's method when it overrides the name, the
\* base class's otherwise.
Invoke(variant, op, self, args) ==
    IF op \in variant
    THEN DriverCall(op, self, args)
    ELSE BaseCall(op, self, args)

(***************************************************************************)
(* The scoped session manager.                                             *)
(***************************************************************************)
\* Variant of __raise_clean_exception that raises a fresh instance of the
\* class instead of the object it was given.
raise_clean_exception_new_instance(exc_type, exc_value, exc_traceback) ==
    LET unknown == /\ exc_type.name \notin DirExceptions
                   /\ exc_type.name \notin BuiltinsKeys
    IN  [printed |-> unknown,
         raised |-> Exc(exc_type, "", "__raise_clean_exception"),
         events |-> IF unknown THEN <<"print", "raise">> ELSE <<"raise">>]

\* print(epilog) when the class's __name__ is neither a name of the
\* exceptions module nor a key of __builtins__; then `raise exc_value`.
__raise_clean_exception(exc_type, exc_value, exc_traceback) ==
    LET unknown == /\ exc_type.name \notin DirExceptions
                   /\ exc_type.name \notin BuiltinsKeys
    IN  [printed |-> unknown,
         raised |-> exc_value,
         events |-> IF unknown THEN <<"print", "raise">> ELSE <<"raise">>]

\* `except Exception` catches the classes that derive from Exception.
IsException(c) == c.base = "Exception"

\* sys.exc_info()[2]: the traceback of the exception being handled.
Traceback(e) == <<e.id>>

\* Variant of __enter__ that swallows the failure of open().
enter_swallows_open_failure(variant, self) ==
    { [session |-> o.session, returned |-> TRUE, openExc |-> o.exc,
       raised |-> NoExc, printed |-> FALSE, events |-> <<"open">>]
      : o \in Invoke(variant, "open", self, NoArgs) }

\* Variant of __enter__ that closes the session when open() failed.
enter_closes_on_open_failure(variant, self) ==
    { IF o.exc = NoExc
      THEN [session |-> o.session, returned |-> TRUE, openExc |-> NoExc,
            raised |-> NoExc, printed |-> FALSE, events |-> <<"open">>]
      ELSE [session |-> o.session, returned |-> FALSE, openExc |-> o.exc,
            raised |-> o.exc, printed |-> FALSE,
            events |-> <<"open", "close", "raise">>]
      : o \in Invoke(variant, "open", self, NoArgs) }

__enter__(variant, self) ==
    { IF o.exc = NoExc
      THEN [session |-> o.session, returned |-> TRUE, openExc |-> NoExc,
            raised |-> NoExc, printed |-> FALSE, events |-> <<"open">>]
      ELSE IF IsException(o.exc.type)
      THEN LET c == __raise_clean_exception(o.exc.type, o.exc, Traceback(o.exc))
           IN  [session |-> o.session, returned |-> FALSE, openExc |-> o.exc,
                raised |-> c.raised, printed |-> c.printed,
                events |-> <<"open">> \o c.events]
      ELSE [session |-> o.session, returned |-> FALSE, openExc |-> o.exc,
            raised |-> o.exc, printed |-> FALSE, events |-> <<"open", "raise">>]
      : o \in Invoke(variant, "open", self, NoArgs) }

\* Variant of __exit__ that closes only when the work returned.
exit_skips_close_on_failure(variant, self, exc_type, exc_value, exc_traceback) ==
    IF exc_type # NoneType
    THEN LET c == __raise_clean_exception(exc_type, exc_value, exc_traceback)
         IN  { [session |-> self, closeExc |-> NoExc, raised |-> c.raised,
                printed |-> c.printed, events |-> c.events] }
    ELSE { [session |-> o.session, closeExc |-> o.exc, raised |-> o.exc,
            printed |-> FALSE,
            events |-> IF o.exc # NoExc THEN <<"close", "raise">> ELSE <<"close">>]
           : o \in Invoke(variant, "close", self, NoArgs) }

\* Variant of __exit__ that prints the hint before it closes.
exit_hint_before_close(variant, self, exc_type, exc_value, exc_traceback) ==
    { LET c == __raise_clean_exception(exc_type, exc_value, exc_traceback)
          hint == IF exc_type # NoneType /\ c.printed THEN <<"print">> ELSE <<>>
      IN  IF o.exc # NoExc
          THEN [session |-> o.session, closeExc |-> o.exc, raised |-> o.exc,
                printed |-> hint # <<>>, events |-> hint \o <<"close", "raise">>]
          ELSE IF exc_type # NoneType
          THEN [session |-> o.session, closeExc |-> NoExc, raised |-> c.raised,
                printed |-> c.printed, events |-> hint \o <<"close", "raise">>]
          ELSE [session |-> o.session, closeExc |-> NoExc, raised |-> NoExc,
                printed |-> FALSE, events |-> <<"close">>]
      : o \in Invoke(variant, "close", self, NoArgs) }

\* Variant of __exit__ that passes a failure of close() through
\* __raise_clean_exception, as __enter__ does for open().
exit_classifies_close_failure(variant, self, exc_type, exc_value, exc_traceback) ==
    { IF o.exc # NoExc
      THEN LET c == __raise_clean_exception(o.exc.type, o.exc, Traceback(o.exc))
           IN  [session |-> o.session, closeExc |-> o.exc, raised |-> c.raised,
                printed |-> c.printed, events |-> <<"close">> \o c.events]
      ELSE IF exc_type # NoneType
      THEN LET c == __raise_clean_exception(exc_type, exc_value, exc_traceback)
           IN  [session |-> o.session, closeExc |-> NoExc, raised |-> c.raised,
                printed |-> c.printed, events |-> <<"close">> \o c.events]
      ELSE [session |-> o.session, closeExc |-> NoExc, raised |-> NoExc,
            printed |-> FALSE, events |-> <<"close">>]
      : o \in Invoke(variant, "close", self, NoArgs) }

__exit__(variant, self, exc_type, exc_value, exc_traceback) ==
    { IF o.exc # NoExc
      THEN [session |-> o.session, closeExc |-> o.exc, raised |-> o.exc,
            printed |-> FALSE, events |-> <<"close", "raise">>]
      ELSE IF exc_type # NoneType
      THEN LET c == __raise_clean_exception(exc_type, exc_value, exc_traceback)
           IN  [session |-> o.session, closeExc |-> NoExc, raised |-> c.raised,
                printed |-> c.printed, events |-> <<"close">> \o c.events]
      ELSE [session |-> o.session, closeExc |-> NoExc, raised |-> NoExc,
            printed |-> FALSE, events |-> <<"close">>]
      : o \in Invoke(variant, "close", self, NoArgs) }

(***************************************************************************)
(* The interpreter: `with driver: <work>`.                                 *)
(***************************************************************************)
PyVersions == {2, 3}

\* An exception raised while another one is being handled: Python 3 keeps
\* the handled one as the new one's __context__, Python 2 drops it.
ImplicitContext(version, handled, new) ==
    IF version >= 3 /\ handled # NoExc /\ new # NoExc /\ new # handled
    THEN handled
    ELSE NoExc

Count(x, seq) == Cardinality({ i \in 1..Len(seq) : seq[i] = x })

WithEnter ==
    /\ pc \in {"idle", "done"}
    /\ scopes < MaxScopes
    /\ \E r \in __enter__(overrides, session) :
         /\ session' = r.session
         /\ pc' = IF r.returned THEN "body" ELSE "done"
         /\ entries' = IF r.returned THEN entries + 1 ELSE entries
         /\ openExc' = r.openExc
         /\ raised' = r.raised
         /\ printed' = r.printed
         /\ events' = r.events
         /\ closeCalls' = closeCalls + Count("close", r.events)
    /\ scopes' = scopes + 1
    /\ exc_info' = NoExc
    /\ closeExc' = NoExc
    /\ context' = NoExc
    /\ UNCHANGED <<overrides, py, bodyRuns, result, preCommit>>

\* The protected work returns or raises.
WithBody ==
    /\ pc = "body"
    /\ \E e \in {NoExc} \cup Raisable("work") : exc_info' = e
    /\ bodyRuns' = bodyRuns + 1
    /\ events' = Append(events, "work")
    /\ pc' = "exit"
    /\ UNCHANGED <<overrides, py, session, scopes, entries, closeCalls, openExc,
                   closeExc, raised, context, printed, result, preCommit>>

WithExit ==
    /\ pc = "exit"
    /\ \E r \in __exit__(overrides, session, exc_info.type, exc_info,
                         Traceback(exc_info)) :
         /\ session' = r.session
         /\ closeExc' = r.closeExc
         /\ raised' = r.raised
         /\ context' = ImplicitContext(py, exc_info, r.raised)
         /\ printed' = r.printed
         /\ events' = events \o r.events
         /\ closeCalls' = closeCalls + Count("close", r.events)
    /\ pc' = "done"
    /\ UNCHANGED <<overrides, py, scopes, entries, bodyRuns, openExc, exc_info,
                   result, preCommit>>

(***************************************************************************)
(* Direct calls of the operations.                                         *)
(***************************************************************************)
NoResult == [op |-> None, args |-> NoArgs, exc |-> NoExc, ret |-> RetNone]

\* The call returns or raises: the driver object and the caller see outcome o.
Return(op, args, o) ==
    /\ Len(o.session.history) <= MaxCommits
    /\ session' = o.session
    /\ result' = [op |-> op, args |-> args, exc |-> o.exc, ret |-> o.ret]
    /\ preCommit' = IF op = "commit_config" /\ o.exc = NoExc
                    THEN session.running
                    ELSE preCommit
    /\ UNCHANGED <<overrides, py>>
    /\ UNCHANGED scopeVars

Open ==
    /\ pc = "idle"
    /\ \E o \in Invoke(overrides, "open", session, NoArgs) :
         Return("open", NoArgs, o)

Close ==
    /\ pc = "idle"
    /\ \E o \in Invoke(overrides, "close", session, NoArgs) :
         Return("close", NoArgs, o)

IsAlive ==
    /\ pc = "idle"
    /\ \E o \in Invoke(overrides, "is_alive", session, NoArgs) :
         Return("is_alive", NoArgs, o)

LoadReplaceCandidate ==
    /\ pc = "idle"
    /\ \E args \in ArgsOf("load_replace_candidate") :
         \E o \in Invoke(overrides, "load_replace_candidate", session, args) :
            Return("load_replace_candidate", args, o)

LoadMergeCandidate ==
    /\ pc = "idle"
    /\ \E args \in ArgsOf("load_merge_candidate") :
         \E o \in Invoke(overrides, "load_merge_candidate", session, args) :
            Return("load_merge_candidate", args, o)

CompareConfig ==
    /\ pc = "idle"
    /\ \E o \in Invoke(overrides, "compare_config", session, NoArgs) :
         Return("compare_config", NoArgs, o)

CommitConfig ==
    /\ pc = "idle"
    /\ \E o \in Invoke(overrides, "commit_config", session, NoArgs) :
         Return("commit_config", NoArgs, o)

DiscardConfig ==
    /\ pc = "idle"
    /\ \E o \in Invoke(overrides, "discard_config", session, NoArgs) :
         Return("discard_config", NoArgs, o)

Rollback ==
    /\ pc = "idle"
    /\ \E o \in Invoke(overrides, "rollback", session, NoArgs) :
         Return("rollback", NoArgs, o)

Cli ==
    /\ pc = "idle"
    /\ \E args \in ArgsOf("cli") :
         \E o \in Invoke(overrides, "cli", session, args) :
            Return("cli", args, o)

(***************************************************************************)
(* Specifications.                                                         *)
(***************************************************************************)
\* The driver variants: every operation overridden, all but one, none.
Variants == {Ops, {}} \cup { Ops \ {op} : op \in Ops }

Init ==
    /\ overrides \in Variants
    /\ py \in PyVersions
    /\ session = NewSession("c0")
    /\ pc = "idle"
    /\ scopes = 0
    /\ entries = 0
    /\ closeCalls = 0
    /\ bodyRuns = 0
    /\ openExc = NoExc
    /\ exc_info = NoExc
    /\ closeExc = NoExc
    /\ raised = NoExc
    /\ context = NoExc
    /\ printed = FALSE
    /\ events = <<>>
    /\ result = NoResult
    /\ preCommit = None

Next == WithEnter \/ WithBody \/ WithExit

Spec == Init /\ [][Next]_vars

InitDriver == Init /\ py = 3

NextDriver ==
    \/ Open
    \/ Close
    \/ IsAlive
    \/ LoadReplaceCandidate
    \/ LoadMergeCandidate
    \/ CompareConfig
    \/ CommitConfig
    \/ DiscardConfig
    \/ Rollback
    \/ Cli

SpecDriver == InitDriver /\ [][NextDriver]_vars

(***************************************************************************)
(* Properties of the scoped session manager (checked under Spec).          *)
(***************************************************************************)
\* The with statement has ended and open() had succeeded on entry.
ScopeExited == pc = "done" /\ openExc = NoExc

\* The with statement has ended and the protected work had raised.
WorkFailed == ScopeExited /\ exc_info # NoExc

\* C1: a scope whose open() succeeded invokes close() exactly once on exit,
\* whether the protected work returned or raised; before the exit no close()
\* has been invoked in the scope.
C1_CloseExactlyOnce ==
    /\ ScopeExited => Count("close", events) = 1
    /\ pc \in {"body", "exit"} => Count("close", events) = 0

C1_Witness ==
    /\ WorkFailed
    /\ closeExc = NoExc
    /\ Count("close", events) = 1

\* C2: when the protected work raises and close() succeeds, the failure the
\* caller observes is the object the work raised: same class, same args, same
\* identity, for declared and undeclared classes alike.
C2_OriginalFailureObserved ==
    (WorkFailed /\ closeExc = NoExc) => raised = exc_info

C2_Witness ==
    /\ WorkFailed
    /\ closeExc = NoExc
    /\ exc_info.type.module = "vendor"
    /\ printed
    /\ raised = exc_info

\* C3: when open() fails on entry the protected work is never run and the
\* failure of open() is what reaches the caller.
C3_OpenFailureSkipsWork ==
    /\ openExc # NoExc =>
          /\ pc = "done"
          /\ Count("work", events) = 0
          /\ raised = openExc
    /\ bodyRuns <= entries

C3_Witness ==
    /\ openExc # NoExc
    /\ pc = "done"
    /\ raised = openExc
    /\ scopes = 2
    /\ bodyRuns = 1

\* What the caller can observe of a failure leaving the with statement: the
\* exception that propagates and the __context__ chained to it.
Surfaced == {raised, context} \ {NoExc}

\* C4: when the protected work raised and close() fails too, both failures
\* are surfaced to the caller: the work's failure is not lost.
C4_BothFailuresSurfaced ==
    (WorkFailed /\ closeExc # NoExc) =>
        /\ exc_info \in Surfaced
        /\ closeExc \in Surfaced

\* A class that is a builtin exception or one of the napalm exceptions.
IsDeclared(c) == IsBuiltin(c) \/ IsNapalm(c)

\* C5: every failure leaving the scoped session manager (from open(), from
\* the protected work, from close()) whose class is not a declared one is
\* surfaced with the hint, and is the object that was raised.
C5_UndeclaredAlwaysHinted ==
    (pc = "done" /\ raised # NoExc /\ ~IsDeclared(raised.type)) =>
        /\ printed
        /\ raised \in {openExc, exc_info, closeExc}

\* The failure that left the scope went through __raise_clean_exception.
Classified ==
    /\ pc = "done"
    /\ raised # NoExc
    /\ closeExc = NoExc
    /\ IsException(raised.type) \/ openExc = NoExc

\* C6: the hint is printed exactly for the classified failures whose class is
\* neither a builtin exception nor a napalm exception, whatever its name; the
\* failure itself propagates unchanged.
C6_HintIffNotDeclared ==
    Classified =>
        /\ printed <=> ~IsDeclared(raised.type)
        /\ raised \in {openExc, exc_info}

\* The positions of event x in the scope's calls.
Positions(x) == { i \in 1..Len(events) : events[i] = x }

\* C7: when the protected work fails, close() is invoked before the hint is
\* printed and before the failure is re-raised.
C7_CloseBeforeSurfacing ==
    WorkFailed =>
        /\ Positions("close") # {}
        /\ \A i \in Positions("print") \cup Positions("raise") :
              \E j \in Positions("close") : j < i

C7_Witness ==
    /\ WorkFailed
    /\ printed
    /\ events = <<"open", "work", "close", "print", "raise">>

(***************************************************************************)
(* Properties of the driver contract (checked under SpecDriver).  A step   *)
(* of SpecDriver is one call: result' is its outcome, session the state it *)
(* was made in and session' the state it left.                             *)
(***************************************************************************)
\* The runtime failure kinds of the contract.
RuntimeFailures == { Napalm(n) : n \in DirExceptions }

\* C8: an operation the variant does not override raises NotImplementedError
\* in every lifecycle state and for every argument and leaves the session as
\* it was; NotImplementedError is none of the runtime failure kinds.
C8_DefaultSignalsNotImplemented ==
    [][ result'.op \in Ops \ overrides =>
           /\ result'.exc = NotImplemented(result'.op)
           /\ result'.exc.type \notin RuntimeFailures
           /\ session' = session ]_vars

C8_Witness ==
    /\ result.op = "close"
    /\ "close" \notin overrides
    /\ result.exc = NotImplemented("close")
    /\ session.state = "CandidatePending"

\* A session that was never opened, or that is already closed.
NotOpen(s) == s.state \in {"Disconnected", "Closed"}

\* C9 as stated: close() never raises on a session that was never opened,
\* and on an already closed session it changes nothing and raises nothing.
C9_CloseNeverRaisesWhenNotOpen ==
    [][ (result'.op = "close" /\ NotOpen(session)) =>
           /\ result'.exc = NoExc
           /\ session.state = "Closed" => session' = session ]_vars

\* C9 as amended: the close() of a variant that overrides it never raises on
\* a session that was never opened and is a no-op on a closed one; the
\* close() a variant inherits raises NotImplementedError there and changes
\* nothing.
C9_CloseWhenNotOpen ==
    [][ (result'.op = "close" /\ NotOpen(session)) =>
           IF "close" \in overrides
           THEN /\ result'.exc = NoExc
                /\ session.state = "Closed" => session' = session
           ELSE /\ result'.exc = NotImplemented("close")
                /\ session' = session ]_vars

C9_Witness ==
    /\ result.op = "close"
    /\ "close" \notin overrides
    /\ result.exc = NotImplemented("close")
    /\ session.state = "Disconnected"

\* The configuration and query operations.
ConfigOps == Ops \ {"open", "close", "is_alive"}

\* C10 as stated: on a Disconnected session every configuration or query
\* operation fails with NotConnected and leaves the session unchanged.
C10_DisconnectedFailsNotConnected ==
    [][ (result'.op \in ConfigOps /\ session.state = "Disconnected") =>
           /\ result'.exc.type = Napalm("NotConnected")
           /\ session' = session ]_vars

\* C10 as amended: on a Disconnected session a configuration or query
\* operation the variant overrides fails with NotConnected, one it inherits
\* raises NotImplementedError; both leave the session unchanged.
C10_DisconnectedFails ==
    [][ (result'.op \in ConfigOps /\ session.state = "Disconnected") =>
           /\ result'.exc.type = IF result'.op \in overrides
                                 THEN Napalm("NotConnected")
                                 ELSE NotImplementedErrorClass
           /\ session' = session ]_vars

C10_Witness ==
    /\ session.state = "Disconnected"
    /\ result.op = "commit_config"
    /\ "commit_config" \in overrides
    /\ result.exc.type = Napalm("NotConnected")

KindOrInherited(op, kind) ==
    IF op \in overrides THEN Napalm(kind) ELSE NotImplementedErrorClass

\* A connected session with no candidate pending.
NothingStaged(s) == IsConnected(s) /\ s.candidate = None

\* C12 as stated: commit_config() and discard_config() on a connected session
\* with no pending candidate fail with NoCandidateConfiguration and leave the
\* session unchanged.
C12_NothingStagedFailsNoCandidate ==
    [][ (result'.op \in {"commit_config", "discard_config"}
         /\ NothingStaged(session)) =>
           /\ result'.exc.type = Napalm("NoCandidateConfiguration")
           /\ session' = session ]_vars

\* C12 as amended: on a connected session with no pending candidate a
\* commit_config() or discard_config() the variant overrides fails with
\* NoCandidateConfiguration, one it inherits raises NotImplementedError; both
\* leave running configuration, candidate and state unchanged.
C12_NothingStagedFails ==
    [][ (result'.op \in {"commit_config", "discard_config"}
         /\ NothingStaged(session)) =>
           /\ result'.exc.type =
                 KindOrInherited(result'.op, "NoCandidateConfiguration")
           /\ session' = session ]_vars

C12_Witness ==
    /\ result.op = "discard_config"
    /\ "discard_config" \in overrides
    /\ result.exc.type = Napalm("NoCandidateConfiguration")
    /\ session.state = "Connected"
    /\ session.candidate = None

\* A connected session in which a commit has succeeded.
HasCommitted(s) == IsConnected(s) /\ s.history # <<>>

C14_NoCommitFailsRollbackError ==
    [][ (result'.op = "rollback" /\ IsConnected(session)
         /\ session.history = <<>>) =>
           /\ result'.exc.type = Napalm("RollbackError")
           /\ session'.running = session.running ]_vars

\* C14 as amended: on a connected session in which no commit has succeeded a
\* rollback() the variant overrides fails with RollbackError, the inherited
\* one raises NotImplementedError; both leave the session unchanged.
C14_NoCommitFails ==
    [][ (result'.op = "rollback" /\ IsConnected(session)
         /\ session.history = <<>>) =>
           /\ result'.exc.type = KindOrInherited("rollback", "RollbackError")
           /\ session' = session ]_vars

C14_Witness ==
    /\ result.op = "rollback"
    /\ "rollback" \in overrides
    /\ result.exc.type = Napalm("RollbackError")
    /\ session.state = "CandidatePending"
    /\ session.history = <<>>

LoadOps == {"load_replace_candidate", "load_merge_candidate"}

\* C15: at most one candidate is pending.  A load that succeeds leaves the
\* session CandidatePending with the configuration it was given as the
\* candidate, whatever was pending before; a load that raises leaves the
\* session, and with it the candidate of the last successful load, unchanged.
C15_LastLoadIsCandidate ==
    [][ result'.op \in LoadOps =>
           IF result'.exc = NoExc
           THEN /\ session'.candidate \in Configs
                /\ session'.candidate =
                      IF result'.args.filename # None
                      THEN FileContent(result'.args.filename)
                      ELSE result'.args.config
                /\ session'.state = "CandidatePending"
                /\ session' = [session EXCEPT !.state = "CandidatePending",
                                              !.candidate = session'.candidate]
           ELSE session' = session ]_vars

C15_Witness ==
    /\ result.op = "load_replace_candidate"
    /\ result.exc.type = Napalm("LoadConfigError")
    /\ session.state = "CandidatePending"
    /\ session.candidate = "c2"

\* C16: load_replace_candidate, load_merge_candidate, compare_config and
\* discard_config never change the running configuration, compare_config
\* changes nothing at all, and a call that changes the running configuration
\* is a commit_config or a rollback.
C16_OnlyCommitAndRollbackChangeRunning ==
    [][ /\ result'.op \in LoadOps \cup {"compare_config", "discard_config"} =>
              session'.running = session.running
        /\ result'.op = "compare_config" => session' = session
        /\ session'.running # session.running =>
              result'.op \in {"commit_config", "rollback"} ]_vars

C16_Witness ==
    /\ result.op = "discard_config"
    /\ result.exc = NoExc
    /\ session.running = "c1"
    /\ session.history = <<"c0">>
    /\ session.candidate = None

\* C17 as stated: compare_config() on a connected session with no candidate
\* pending returns an empty diff and raises nothing.
C17_NoCandidateEmptyDiff ==
    [][ (result'.op = "compare_config" /\ NothingStaged(session)) =>
           /\ result'.exc = NoExc
           /\ result'.ret = <<"diff", EmptyDiff>> ]_vars

\* C17 as amended: on a connected session with no candidate pending a
\* compare_config() the variant overrides returns an empty diff and raises
\* nothing; the inherited one raises NotImplementedError.  Neither changes the
\* session.
C17_NoCandidateEmptyDiffOrInherited ==
    [][ (result'.op = "compare_config" /\ NothingStaged(session)) =>
           /\ IF "compare_config" \in overrides
              THEN /\ result'.exc = NoExc
                   /\ result'.ret = <<"diff", EmptyDiff>>
              ELSE result'.exc = NotImplemented("compare_config")
           /\ session' = session ]_vars

C17_Witness ==
    /\ result.op = "compare_config"
    /\ result.exc = NoExc
    /\ result.ret = <<"diff", EmptyDiff>>
    /\ session.state = "Connected"
    /\ session.candidate = None
    /\ session.history # <<>>

\* A load given both a file with a valid configuration and an inline string.
BothGiven(args) ==
    /\ args.filename # None
    /\ args.config # None
    /\ FileContent(args.filename) # Invalid

WithoutInline(op, args) ==
    Invoke(overrides, op, session, [args EXCEPT !.config = None])

InScope == pc \in {"body", "exit"}

\* C19: when open() fails on entry no close() is invoked for that scope, and
\* the close() calls of the scoped session manager are as many as the scoped
\* entries that succeeded (one less while the last of them is still open).
C19_CloseCallsMatchEntries ==
    /\ openExc # NoExc => Count("close", events) = 0
    /\ closeCalls + (IF InScope THEN 1 ELSE 0) = entries

C19_Witness ==
    /\ pc = "done"
    /\ openExc # NoExc
    /\ scopes = 2
    /\ entries = 1
    /\ closeCalls = 1

\* C20: when the protected work returns normally, the scoped exit raises
\* exactly what close() raised, as the same object and without a hint, also
\* for an undeclared class; when close() returns too, nothing is raised and
\* nothing is printed.
C20_NormalExitRaisesOnlyCloseFailure ==
    (ScopeExited /\ exc_info = NoExc) =>
        /\ raised = closeExc
        /\ context = NoExc
        /\ ~printed
        /\ Count("print", events) = 0

C20_Witness ==
    /\ ScopeExited
    /\ exc_info = NoExc
    /\ closeExc.type = Class("VendorError", "vendor", "Exception")
    /\ raised = closeExc
    /\ ~printed

====
